---- MODULE Spec2Model ----
(***************************************************************************)
(* simple-ffmpeg (src/src/lib.rs): a session that owns a spawned ffmpeg    *)
(* child process, writes raw frames to its standard input and waits for    *)
(* it to exit.  The model has the session (struct FFMpeg), the operating   *)
(* system's side of it (the child process, the pipe between the two) and   *)
(* the caller's position in the API.                                       *)
(***************************************************************************)
EXTENDS Integers, Sequences, FiniteSets, TLC

(***************************************************************************)
(* Bounds of the model.                                                    *)
(***************************************************************************)
\* usize is WordBits wide (64 or 32 in the build; small here so that
\* width * height can exceed it)
WordBits == 2
\* width and height range over 1..MaxDim
MaxDim == 2
\* the caller's frames have 0..MaxFrameLen pixels
MaxFrameLen == 2
\* at most MaxSends calls of send_frame on a session
MaxSends == 2
\* capacity of the kernel's pipe buffer, in bytes
PipeCap == 5

RECURSIVE Pow2(_)
Pow2(n) == IF n = 0 THEN 1 ELSE 2 * Pow2(n - 1)

UsizeMod == Pow2(WordBits)

Min(a, b) == IF a < b THEN a ELSE b

\* Option<T> is a sequence of length 0 (None) or 1 (Some)
None == << >>
Some(x) == << x >>

(***************************************************************************)
(* State                                                                   *)
(***************************************************************************)
VARIABLES
    host,       \* byte order of the target: "little" or "big"
    checks,     \* TRUE when the build checks arithmetic overflow (debug)
    pc,         \* where the caller is
    sess,       \* the FFMpeg value: None, or Some([width, height, fps])
    stdin,      \* child.stdin is Some: the write end of the pipe is open
    cached,     \* child.handle.status: the status a wait has stored
    proc,       \* the child process: "none", "running", "zombie", "reaped", "gone"
    exit,       \* the status the child terminated with
    pipe,       \* bytes in the pipe buffer, oldest first
    childRead,  \* every byte the child has read, in order
    childEOF,   \* the child has read end-of-input
    buf,        \* write_all: the bytes still to write
    cur,        \* the frame of the send_frame call in progress (or that panicked)
    okFrames,   \* the frames of the send_frame calls that returned Ok
    nSends,     \* how many send_frame calls were made
    ret,        \* what the last call of the API returned (or raised)
    failed,     \* some send_frame call returned an error
    early,      \* the child terminated while the session was streaming
    call,       \* the arguments start was called with
    cmd,        \* the command the child was spawned with
    nWritten,   \* how many bytes the pipe has accepted from the session
    waitLog,    \* what each wait of the session on its child did, in order
    colorCall   \* a call of get_color: its arguments and its result

vars == <<host, checks, pc, sess, stdin, cached, proc, exit, pipe, childRead,
          childEOF, buf, cur, okFrames, nSends, ret, failed, early, call, cmd,
          nWritten, waitLog, colorCall>>

NoRet == [tag |-> "none"]

(***************************************************************************)
(* Colors                                                                  *)
(***************************************************************************)
\* u32::from_ne_bytes on host h: the u32 whose bytes in memory are mem
from_ne_bytes(h, mem) ==
    IF h = "little"
    THEN mem[1] + mem[2] * 256 + mem[3] * 65536 + mem[4] * 16777216
    ELSE mem[4] + mem[3] * 256 + mem[2] * 65536 + mem[1] * 16777216

\* the four bytes in the opposite order
swap_bytes(b) == <<b[4], b[3], b[2], b[1]>>

\* a conversion that takes the bytes in the host's own order
from_be_bytes_native(h, bytes) == from_ne_bytes(h, bytes)

\* u32::from_be_bytes on host h: from_be(from_ne_bytes(bytes)), where from_be
\* swaps the bytes on a little-endian host and does nothing on a big-endian
\* one (written here with the swap made on the array, so that no
\* intermediate value leaves the range of the integers)
from_be_bytes(h, bytes) ==
    from_ne_bytes(h, IF h = "little" THEN swap_bytes(bytes) ELSE bytes)

\* get_color: Color::from_be_bytes([r, g, b, a]) on the host the program
\* runs on
get_color(r, g, b, a) == from_be_bytes(host, <<r, g, b, a>>)

\* the channel values the caller builds pixels from (red stays below 128:
\* TLC's integers are 32-bit signed)
ChanTuples == { <<1, 2, 3, 4>>, <<0, 255, 0, 0>> }

Pixels == { get_color(t[1], t[2], t[3], t[4]) : t \in ChanTuples }

\* the frames a caller may pass: for every length 0..MaxFrameLen (a slice is
\* shorter than 2^WordBits) and every two pixels, the frame in which the
\* two alternate
Frames ==
    { [i \in 1..f[1] |-> IF i % 2 = 1 THEN f[2] ELSE f[3]] :
        f \in { g \in (0..Min(MaxFrameLen, UsizeMod - 1)) \X Pixels \X Pixels :
                   g[2] # g[3] } }

\* the four bytes of the u32 c as they lie in memory on host h
MemBytes(h, c) ==
    LET b0 == c % 256
        b1 == (c \div 256) % 256
        b2 == (c \div 65536) % 256
        b3 == (c \div 16777216) % 256
    IN IF h = "little" THEN <<b0, b1, b2, b3>> ELSE <<b3, b2, b1, b0>>

\* u32::to_be_bytes on host h: the bytes of c, most significant first
to_be_bytes(h, c) ==
    IF h = "little" THEN swap_bytes(MemBytes(h, c)) ELSE MemBytes(h, c)

\* slice::from_raw_parts(ptr as *const u8, len * 4): the frame's memory,
\* pixel after pixel, read as bytes
RECURSIVE pixels_u8(_, _)
pixels_u8(h, pixels) ==
    IF pixels = << >> THEN << >>
    ELSE MemBytes(h, Head(pixels)) \o pixels_u8(h, Tail(pixels))

(***************************************************************************)
(* Exit statuses and errors                                                *)
(***************************************************************************)
\* what a child can terminate with: exit(code) or death by a signal
ExitCodes == {0, 3}
Signals == {9}
Statuses == { [kind |-> "exit", val |-> c] : c \in ExitCodes }
            \cup { [kind |-> "signal", val |-> s] : s \in Signals }

\* ExitStatus::success and ExitStatus::code
success(st) == st.kind = "exit" /\ st.val = 0
code(st) == IF st.kind = "exit" THEN Some(st.val) ELSE None

\* From<std::io::Error> for Error
IOError(e) == [tag |-> "IOError", os |-> e]
FFMpegExitedAbnormally(st) == [tag |-> "FFMpegExitedAbnormally", status |-> st]
Ok == [tag |-> "Ok"]
Panic(msg) == [tag |-> "panic", msg |-> msg]

\* a Display that prints a number for every abnormal exit
DisplayGuessedCode(e) ==
    IF e.tag = "FFMpegExitedAbnormally"
    THEN <<"ffmpeg exited abnormally with code ", e.status.val>>
    ELSE <<"io error: ", e.os>>

\* impl fmt::Display for Error, as the pieces written
Display(e) ==
    IF e.tag = "FFMpegExitedAbnormally"
    THEN IF code(e.status) # None
         THEN <<"ffmpeg exited abnormally with code ", code(e.status)[1]>>
         ELSE <<"ffmpeg exited abnormally">>
    ELSE <<"io error: ", e.os>>

Init ==
    /\ host \in {"little", "big"}
    /\ checks \in BOOLEAN
    /\ pc = "init"
    /\ sess = None
    /\ stdin = FALSE
    /\ cached = None
    /\ proc = "none"
    /\ exit = None
    /\ pipe = << >>
    /\ childRead = << >>
    /\ childEOF = FALSE
    /\ buf = << >>
    /\ cur = << >>
    /\ okFrames = << >>
    /\ nSends = 0
    /\ ret = NoRet
    /\ failed = FALSE
    /\ early = FALSE
    /\ call = None
    /\ cmd = None
    /\ nWritten = 0
    /\ waitLog = << >>
    /\ colorCall = None

(***************************************************************************)
(* FFMpeg::start                                                           *)
(***************************************************************************)
Dims == 1..MaxDim
FpsSet == {60}
OutFiles == {"out.mp4"}

\* format!("{n}"): the decimal digits of n
RECURSIVE format(_)
format(n) ==
    IF n < 10 THEN SubSeq("0123456789", n + 1, n + 1)
    ELSE format(n \div 10) \o SubSeq("0123456789", (n % 10) + 1, (n % 10) + 1)

\* an argument list that gives the size as height x width
ArgsSizeSwapped(out_file, width, height, fps) ==
    <<"-loglevel", "verbose", "-y">>
    \o <<"-f", "rawvideo">>
    \o <<"-pix_fmt", "rgba">>
    \o <<"-s", format(height) \o "x" \o format(width)>>
    \o <<"-r", format(fps)>>
    \o <<"-i", "-">>
    \o <<out_file>>

\* the arguments start gives to Command::new("ffmpeg"), in order
Args(out_file, width, height, fps) ==
    <<"-loglevel", "verbose", "-y">>
    \o <<"-f", "rawvideo">>
    \o <<"-pix_fmt", "rgba">>
    \o <<"-s", format(width) \o "x" \o format(height)>>
    \o <<"-r", format(fps)>>
    \o <<"-i", "-">>
    \o <<out_file>>

\* the Command as it is spawned: only stdin is set, to a pipe; stdout and
\* stderr keep the default of spawn, the parent's
Command(out_file, width, height, fps) ==
    [program |-> "ffmpeg",
     args |-> Args(out_file, width, height, fps),
     stdin |-> "piped", stdout |-> "inherit", stderr |-> "inherit"]

\* a start that returns the error although a child was spawned
SpawnFailsLeaks ==
    /\ pc' = "startFailed"
    /\ ret' = IOError("ENOENT")
    /\ stdin' = TRUE
    /\ proc' = "running"
    /\ UNCHANGED sess

\* Command::spawn failed: `?` returns the io::Error as Error::IOError and no
\* FFMpeg value is built
SpawnFails ==
    /\ pc' = "startFailed"
    /\ ret' = IOError("ENOENT")
    /\ UNCHANGED <<sess, stdin, proc>>

\* spawn succeeded: Ok(FFMpeg { child, width, height, fps }), the child runs
\* with its standard input piped
SpawnOk(o, w, h, f) ==
    /\ pc' = "idle"
    /\ ret' = Ok
    /\ sess' = Some([width |-> w, height |-> h, fps |-> f])
    /\ stdin' = TRUE
    /\ proc' = "running"
    /\ call' = Some([out_file |-> o, width |-> w, height |-> h, fps |-> f])
    /\ cmd' = Some(Command(o, w, h, f))

start ==
    /\ pc = "init"
    /\ \/ SpawnFails /\ UNCHANGED <<call, cmd>>
       \/ \E o \in OutFiles, w \in Dims, h \in Dims, f \in FpsSet : SpawnOk(o, w, h, f)
    /\ UNCHANGED <<host, checks, colorCall, nWritten, waitLog,
                   cached, exit, pipe, childRead, childEOF, buf,
                   cur, okFrames, nSends, failed, early>>

\* an accessor that returns the other dimension
height_is_width(s) == s.width

\* FFMpeg::width, height, fps, resolution
width(s) == s.width
height(s) == s.height
fps(s) == s.fps
resolution(s) == <<s.width, s.height>>

(***************************************************************************)
(* FFMpeg::send_frame                                                      *)
(***************************************************************************)
\* self.width * self.height in usize: None when the build checks overflow
\* and the product does not fit (the multiplication panics), else the
\* product modulo 2^WordBits
Product(w, h) ==
    IF w * h >= UsizeMod /\ checks THEN None ELSE Some((w * h) % UsizeMod)

\* what send_frame does before it writes: the panic it raises, or None
Precheck(pixels, s, in) ==
    LET prod == Product(s.width, s.height)
    IN IF prod = None THEN Some(Panic("attempt to multiply with overflow"))
       ELSE IF Len(pixels) # prod[1] THEN Some(Panic("assertion failed: left == right"))
       ELSE IF ~in THEN Some(Panic("we set stdin to piped"))
       ELSE None

\* a call that returns: its result, and the frame counted when it is Ok
Return(r, frame) ==
    /\ pc' = "idle"
    /\ ret' = r
    /\ okFrames' = IF r = Ok THEN Append(okFrames, frame) ELSE okFrames
    /\ failed' = (failed \/ r # Ok)
    /\ buf' = << >>
    /\ cur' = << >>

send_frame ==
    /\ pc = "idle"
    /\ nSends < MaxSends
    /\ \E pixels \in Frames :
         LET bad == Precheck(pixels, sess[1], stdin)
             bytes == pixels_u8(host, pixels)
         IN IF bad # None
            THEN /\ pc' = "panicked"
                 /\ ret' = bad[1]
                 /\ cur' = pixels
                 /\ UNCHANGED <<buf, okFrames, failed>>
            ELSE IF bytes = << >>
            \* write_all of an empty buffer makes no write and returns Ok
            THEN Return(Ok, pixels)
            ELSE /\ pc' = "writing"
                 /\ buf' = bytes
                 /\ cur' = pixels
                 /\ UNCHANGED <<ret, okFrames, failed>>
    /\ nSends' = nSends + 1
    /\ UNCHANGED <<host, checks, colorCall, call, cmd, nWritten, waitLog,
                   sess, stdin, cached, proc, exit, pipe,
                   childRead, childEOF, early>>

\* a write that puts its bytes in front of what the pipe still holds
PipeWritePrepend(p, data) == data \o p

\* the pipe after a write of data
PipeWrite(p, data) == p \o data

\* a write into a buffer of the session's own, which takes the bytes whether
\* or not anything reads the pipe
write_all_buffered ==
    /\ pc = "writing"
    /\ \E n \in 1..Min(Len(buf), PipeCap - Len(pipe)) :
         /\ pipe' = PipeWrite(pipe, SubSeq(buf, 1, n))
         /\ nWritten' = nWritten + n
         /\ IF n = Len(buf)
            THEN Return(Ok, cur)
            ELSE /\ buf' = SubSeq(buf, n + 1, Len(buf))
                 /\ UNCHANGED <<pc, ret, okFrames, failed, cur>>
    /\ UNCHANGED <<host, checks, colorCall, call, cmd, waitLog, sess, stdin,
                   cached, proc, exit, childRead, childEOF, nSends, early>>

\* a write that gives up with an error when the pipe has no room
write_all_times_out ==
    /\ pc = "writing"
    /\ proc = "running"
    /\ \/ \E n \in 1..Min(Len(buf), PipeCap - Len(pipe)) :
            /\ pipe' = PipeWrite(pipe, SubSeq(buf, 1, n))
            /\ nWritten' = nWritten + n
            /\ IF n = Len(buf)
               THEN Return(Ok, cur)
               ELSE /\ buf' = SubSeq(buf, n + 1, Len(buf))
                    /\ UNCHANGED <<pc, ret, okFrames, failed, cur>>
       \/ /\ Len(pipe) = PipeCap
          /\ Return(IOError("EAGAIN"), cur)
          /\ UNCHANGED <<pipe, nWritten>>
    /\ UNCHANGED <<host, checks, colorCall, call, cmd, waitLog, sess, stdin,
                   cached, proc, exit, childRead, childEOF, nSends, early>>

\* write_all: one write that the pipe accepts n bytes of; the call returns
\* Ok when nothing is left
write_all_writes ==
    /\ pc = "writing"
    /\ proc = "running"
    /\ \E n \in 1..Min(Len(buf), PipeCap - Len(pipe)) :
         /\ pipe' = PipeWrite(pipe, SubSeq(buf, 1, n))
         /\ nWritten' = nWritten + n
         /\ IF n = Len(buf)
            THEN Return(Ok, cur)
            ELSE /\ buf' = SubSeq(buf, n + 1, Len(buf))
                 /\ UNCHANGED <<pc, ret, okFrames, failed, cur>>
    /\ UNCHANGED <<host, checks, colorCall, call, cmd, waitLog, sess, stdin,
                   cached, proc, exit, childRead, childEOF, nSends, early>>

\* the error of the write thrown away
WriteErrorIgnored == Ok

\* the result of a write to a pipe nobody reads: the io::Error, through `?`
WriteError == IOError("EPIPE")

\* write_all: a write to a pipe whose read end is closed fails
write_all_fails ==
    /\ pc = "writing"
    /\ proc # "running"
    /\ Return(WriteError, cur)
    /\ UNCHANGED <<host, checks, colorCall, call, cmd, nWritten, waitLog,
                   sess, stdin, cached, proc, exit, pipe,
                   childRead, childEOF, nSends, early>>

(***************************************************************************)
(* Child::wait, FFMpeg::finalize, Drop                                     *)
(***************************************************************************)
\* a wait that asks the system every time, whatever status is stored
WaitNoCache(st, p, ex) ==
    IF p = "zombie"
    THEN [ok |-> TRUE, status |-> ex, cached |-> ex, proc |-> "reaped", how |-> "reaped"]
    ELSE [ok |-> FALSE, status |-> None, cached |-> st, proc |-> p, how |-> "ECHILD"]

\* Child::wait once the child is no longer running: the stored status if
\* there is one, else the status of the zombie it reaps, else ECHILD (the
\* child was reaped by something else).  Gives the result and the handle's
\* and the process's new state.
\* `how` tells what the call did: "cached" (no system call is made),
\* "reaped" (waitpid collected the child) or "ECHILD" (waitpid failed).
Wait(st, p, ex) ==
    IF st # None
    THEN [ok |-> TRUE, status |-> st, cached |-> st, proc |-> p, how |-> "cached"]
    ELSE IF p = "zombie"
    THEN [ok |-> TRUE, status |-> ex, cached |-> ex, proc |-> "reaped", how |-> "reaped"]
    ELSE [ok |-> FALSE, status |-> None, cached |-> None, proc |-> p, how |-> "ECHILD"]

\* a wait that leaves child.stdin open
KeepStdin == TRUE

\* Child::wait drops child.stdin before it waits
TakeStdin == FALSE

\* a finalize that does not look at the status
finalize_result_unchecked(w) == IF ~w.ok THEN IOError("ECHILD") ELSE Ok

\* what finalize returns for the result w of its wait
finalize_result(w) ==
    IF ~w.ok THEN IOError("ECHILD")
    ELSE IF ~success(w.status[1]) THEN FFMpegExitedAbnormally(w.status[1])
    ELSE Ok

finalize ==
    /\ pc = "idle"
    /\ pc' = "finWait"
    /\ stdin' = TakeStdin
    /\ UNCHANGED <<host, checks, colorCall, call, cmd, nWritten, waitLog,
                   sess, cached, proc, exit, pipe, childRead,
                   childEOF, buf, cur, okFrames, nSends, ret, failed, early>>

\* the wait returns; finalize computes its result, and the session it
\* consumed is dropped, which waits once more
finalize_returns ==
    /\ pc = "finWait"
    /\ proc # "running"
    /\ LET w1 == Wait(cached, proc, exit)
           w2 == Wait(w1.cached, w1.proc, exit)
       IN /\ ret' = finalize_result(w1)
          /\ cached' = w2.cached
          /\ proc' = w2.proc
          /\ waitLog' = waitLog \o <<w1.how, w2.how>>
    /\ pc' = "finalized"
    /\ sess' = None
    /\ UNCHANGED <<host, checks, colorCall, call, cmd, nWritten,
                   stdin, exit, pipe, childRead, childEOF, buf,
                   cur, okFrames, nSends, failed, early>>

\* a drop that waits with the write end of the pipe still open
drop_keeps_stdin ==
    /\ pc \in {"idle", "panicked"}
    /\ pc' = "dropWait"
    /\ UNCHANGED <<host, checks, colorCall, call, cmd, nWritten, waitLog,
                   sess, stdin, cached, proc, exit, pipe, childRead,
                   childEOF, buf, cur, okFrames, nSends, ret, failed, early>>

\* the session goes out of scope without finalize, or a panic of send_frame
\* unwinds through its owner
drop ==
    /\ pc \in {"idle", "panicked"}
    /\ pc' = "dropWait"
    /\ stdin' = TakeStdin
    /\ UNCHANGED <<host, checks, colorCall, call, cmd, nWritten, waitLog,
                   sess, cached, proc, exit, pipe, childRead,
                   childEOF, buf, cur, okFrames, nSends, ret, failed, early>>

\* a drop that lets go of the child without waiting for it
drop_returns_without_wait ==
    /\ pc = "dropWait"
    /\ pc' = "dropped"
    /\ sess' = None
    /\ UNCHANGED <<host, checks, colorCall, call, cmd, nWritten, waitLog,
                   stdin, cached, proc, exit, pipe, childRead,
                   childEOF, buf, cur, okFrames, nSends, ret, failed, early>>

\* `_ = self.child.wait()`: the result goes nowhere
drop_returns ==
    /\ pc = "dropWait"
    /\ proc # "running"
    /\ LET w == Wait(cached, proc, exit)
       IN /\ cached' = w.cached
          /\ proc' = w.proc
          /\ waitLog' = Append(waitLog, w.how)
    /\ pc' = "dropped"
    /\ sess' = None
    /\ UNCHANGED <<host, checks, colorCall, call, cmd, nWritten,
                   stdin, exit, pipe, childRead, childEOF, buf,
                   cur, okFrames, nSends, ret, failed, early>>

(***************************************************************************)
(* The child process and the rest of the system                            *)
(***************************************************************************)
ChildReads ==
    /\ proc = "running"
    /\ \E k \in 1..Len(pipe) :
         /\ childRead' = childRead \o SubSeq(pipe, 1, k)
         /\ pipe' = SubSeq(pipe, k + 1, Len(pipe))
    /\ UNCHANGED <<host, checks, colorCall, call, cmd, nWritten, waitLog,
                   pc, sess, stdin, cached, proc, exit, childEOF,
                   buf, cur, okFrames, nSends, ret, failed, early>>

\* a read of the empty pipe returns 0 once the write end is closed
ChildReadsEOF ==
    /\ proc = "running"
    /\ pipe = << >>
    /\ ~stdin
    /\ ~childEOF
    /\ childEOF' = TRUE
    /\ UNCHANGED <<host, checks, colorCall, call, cmd, nWritten, waitLog,
                   pc, sess, stdin, cached, proc, exit, pipe,
                   childRead, buf, cur, okFrames, nSends, ret, failed, early>>

\* the process ends with status st: its end of the pipe closes and what
\* was still buffered is lost
Terminate(st) ==
    /\ proc = "running"
    /\ proc' = "zombie"
    /\ exit' = Some(st)
    /\ pipe' = << >>
    /\ early' = (pc \in {"idle", "writing"})
    /\ UNCHANGED <<host, checks, colorCall, call, cmd, nWritten, waitLog,
                   pc, sess, stdin, cached, childRead, childEOF,
                   buf, cur, okFrames, nSends, ret, failed>>

\* the child exits by itself, at any moment
ChildExits == \E c \in ExitCodes : Terminate([kind |-> "exit", val |-> c])

\* the child is killed from outside
ChildKilled == \E s \in Signals : Terminate([kind |-> "signal", val |-> s])

\* the terminated child is reaped by something other than the session
\* (SIGCHLD ignored, a wait for any child elsewhere in the program)
ReapedElsewhere ==
    /\ proc = "zombie"
    /\ proc' = "gone"
    /\ UNCHANGED <<host, checks, colorCall, call, cmd, nWritten, waitLog,
                   pc, sess, stdin, cached, exit, pipe, childRead,
                   childEOF, buf, cur, okFrames, nSends, ret, failed, early>>

(***************************************************************************)
(* get_color on its own: calls with channel values from the corners of   *)
(* the byte range (red and alpha below 128, the integers being 32-bit   *)
(* signed), and the unpacking of their results                           *)
(***************************************************************************)
TopChannel == {0, 1, 127}
MidChannel == {0, 1, 128, 255}

get_color_call ==
    /\ \E r \in TopChannel, g \in MidChannel, b \in MidChannel, a \in TopChannel :
         colorCall' = Some([r |-> r, g |-> g, b |-> b, a |-> a,
                            color |-> get_color(r, g, b, a),
                            bytes |-> None])
    /\ UNCHANGED <<host, checks, call, cmd, nWritten, waitLog,
                   pc, sess, stdin, cached, proc, exit, pipe, childRead,
                   childEOF, buf, cur, okFrames, nSends, ret, failed, early>>

unpack ==
    /\ colorCall # None
    /\ colorCall[1].bytes = None
    /\ colorCall' = Some([colorCall[1] EXCEPT
                            !.bytes = Some(to_be_bytes(host, colorCall[1].color))])
    /\ UNCHANGED <<host, checks, call, cmd, nWritten, waitLog,
                   pc, sess, stdin, cached, proc, exit, pipe, childRead,
                   childEOF, buf, cur, okFrames, nSends, ret, failed, early>>

ColorNext ==
    \/ get_color_call
    \/ unpack

ColorSpec == Init /\ [][ColorNext]_vars

Next ==
    \/ start
    \/ send_frame
    \/ write_all_writes
    \/ write_all_fails
    \/ finalize
    \/ finalize_returns
    \/ drop
    \/ drop_returns
    \/ ChildReads
    \/ ChildReadsEOF
    \/ ChildExits
    \/ ChildKilled
    \/ ReapedElsewhere

Spec == Init /\ [][Next]_vars

\* The scheduling the operating system gives: a running child gets to read
\* what is in the pipe and to see end-of-input, a write returns once the
\* pipe has room or its read end is closed, a wait returns once the child
\* has terminated; and the child is one that terminates once it has read
\* end-of-input.
Fairness ==
    /\ WF_vars(write_all_writes)
    /\ WF_vars(write_all_fails)
    /\ WF_vars(ChildReads)
    /\ WF_vars(ChildReadsEOF)
    /\ WF_vars(childEOF /\ ChildExits)
    /\ WF_vars(finalize_returns)
    /\ WF_vars(drop_returns)

LiveSpec == Init /\ [][Next]_vars /\ Fairness

(***************************************************************************)
(* Properties                                                              *)
(***************************************************************************)
IsPrefix(a, b) == Len(a) <= Len(b) /\ a = SubSeq(b, 1, Len(a))

\* bytes(F1) ++ bytes(F2) ++ ... for a sequence of frames, bytes(F) being what
\* send_frame hands to write_all on this host
RECURSIVE FramesBytes(_)
FramesBytes(fs) ==
    IF fs = << >> THEN << >>
    ELSE pixels_u8(host, Head(fs)) \o FramesBytes(Tail(fs))

\* the part of the frame in progress that the pipe has accepted
InFlight ==
    IF pc = "writing"
    THEN SubSeq(pixels_u8(host, cur), 1, Len(pixels_u8(host, cur)) - Len(buf))
    ELSE << >>

\* C1: as long as no send_frame has failed, what the child has read followed
\* by what waits in the pipe is exactly bytes(F1) ++ ... ++ bytes(Fn) of the
\* calls that returned Ok, in call order (followed by the accepted part of a
\* call in progress): nothing dropped, duplicated, interleaved or inserted.
\* A child that reads up to end-of-input has read exactly that stream, and
\* one that stopped earlier has read a prefix of it.
C1_FramesArriveInOrder ==
    ~failed =>
        /\ proc = "running" => childRead \o pipe = FramesBytes(okFrames) \o InFlight
        /\ IsPrefix(childRead, FramesBytes(okFrames) \o InFlight)
        /\ childEOF => childRead = FramesBytes(okFrames)

C1_Witness ==
    /\ childEOF
    /\ Len(okFrames) = 2
    /\ okFrames[1] # << >>
    /\ okFrames[1] # okFrames[2]

\* the channels a pixel of the model was built from
ChannelsOf(p) == CHOOSE t \in ChanTuples : get_color(t[1], t[2], t[3], t[4]) = p

\* the stream in canonical order: r, g, b, a for every pixel of every frame
RECURSIVE CanonPixels(_)
CanonPixels(pixels) ==
    IF pixels = << >> THEN << >>
    ELSE ChannelsOf(Head(pixels)) \o CanonPixels(Tail(pixels))

RECURSIVE CanonBytes(_)
CanonBytes(fs) ==
    IF fs = << >> THEN << >>
    ELSE CanonPixels(Head(fs)) \o CanonBytes(Tail(fs))

\* C2: on every host, each pixel get_color(r, g, b, a) of the frames sent
\* reaches the pipe as the four bytes r, g, b, a in that order.
C2_CanonicalOrderOnPipe ==
    (proc = "running" /\ pc = "idle") => childRead \o pipe = CanonBytes(okFrames)

\* C3: a frame is accepted exactly when its length is width * height: a
\* frame of another length makes send_frame panic with nothing of it written,
\* a frame of that length is not rejected by the check.
C3_WrongLengthRejected ==
    sess # None =>
    LET n == sess[1].width * sess[1].height
    IN /\ \A i \in 1..Len(okFrames) : Len(okFrames[i]) = n
       /\ pc = "writing" => Len(cur) = n
       /\ pc = "panicked" =>
            /\ ret.tag = "panic"
            /\ Len(cur) # n
            /\ proc = "running" => childRead \o pipe = FramesBytes(okFrames)

\* C4 as stated: finalize returns Ok exactly when the child terminated with
\* exit code 0, and for an exit code k other than 0 it returns
\* FFMpegExitedAbnormally with the status of code k.
C4_ResultIsExitCode ==
    pc = "finalized" =>
        /\ ret = Ok <=> exit = Some([kind |-> "exit", val |-> 0])
        /\ (exit[1].kind = "exit" /\ exit[1].val # 0) =>
               ret = [tag |-> "FFMpegExitedAbnormally", status |-> exit[1]]

\* C4 amended: that holds whenever the wait on the child itself succeeds;
\* when the wait fails (the child was reaped elsewhere) finalize returns the
\* IO error of the wait, whatever the exit code was.
C4_ResultIsExitCodeUnlessWaitFails ==
    pc = "finalized" =>
        IF proc = "gone" THEN ret = [tag |-> "IOError", os |-> "ECHILD"]
        ELSE /\ ret = Ok <=> exit = Some([kind |-> "exit", val |-> 0])
             /\ (exit[1].kind = "exit" /\ exit[1].val # 0) =>
                    /\ ret = [tag |-> "FFMpegExitedAbnormally", status |-> exit[1]]
                    /\ code(ret.status) = Some(exit[1].val)

C4_Witness ==
    /\ pc = "finalized"
    /\ Len(okFrames) >= 1
    /\ ret.tag = "FFMpegExitedAbnormally"
    /\ code(ret.status) = Some(3)

\* C5: finalize releases the write end of the pipe before it waits (while it
\* waits the write end is closed), and with a child that terminates once it
\* reads end-of-input a finalize that has started waiting returns.
C5_EofBeforeWait ==
    /\ [](pc = "finWait" => ~stdin)
    /\ (pc = "finWait") ~> (pc = "finalized")

C5_Witness ==
    /\ pc = "finalized"
    /\ childEOF
    /\ ~early
    /\ Len(okFrames) >= 1

\* C6: a start whose spawn fails returns the IO error and leaves nothing: no
\* FFMpeg value, no child process, no pipe, and no step of that attempt
\* follows.
C6_NoSessionOnLaunchError ==
    /\ [](pc = "startFailed" =>
            /\ ret = [tag |-> "IOError", os |-> "ENOENT"]
            /\ sess = None
            /\ proc = "none"
            /\ ~stdin
            /\ cached = None
            /\ pipe = << >>
            /\ nSends = 0)
    /\ [][pc # "startFailed"]_vars

C6_Witness == pc = "startFailed" /\ ret.tag = "IOError"

\* C7: when the drop of a session that was not finalized completes, the
\* child is neither running nor a zombie, after any number of send_frame
\* calls; a status the wait obtained is the child's; and the drop changes
\* nothing of what the caller was last told.
C7_DropReaps ==
    /\ [](pc = "dropped" =>
            /\ proc \in {"reaped", "gone"}
            /\ proc = "reaped" => cached = exit
            /\ sess = None)
    /\ [][pc' \in {"dropWait", "dropped"} => ret' = ret]_vars

C7_Witness ==
    /\ pc = "dropped"
    /\ proc = "reaped"
    /\ nSends = 0

\* C8: once a send_frame call has returned an error, no later send_frame
\* call on the session returns Ok and no further byte reaches the pipe or
\* the child: the session never streams again.
C8_WriteErrorIsTerminal ==
    [][failed =>
          /\ failed'
          /\ okFrames' = okFrames
          /\ pipe' = pipe
          /\ childRead' = childRead
          /\ pc' # "idle" \/ ret' # Ok]_vars

C8_Witness ==
    /\ failed
    /\ nSends = 2
    /\ pc = "idle"
    /\ ret = [tag |-> "IOError", os |-> "EPIPE"]
    /\ okFrames = << >>

\* a send_frame call that has bytes to write returns in this step
SendReturns == pc = "writing" /\ pc' # "writing"

\* C9 as stated: with the child terminated while the session was streaming,
\* the next send_frame returns the write error (it does not succeed, and it
\* is not left blocked), and finalize returns FFMpegExitedAbnormally.
C9_DeadChildFailsBoth ==
    /\ [][(SendReturns /\ proc # "running") =>
             ret' = [tag |-> "IOError", os |-> "EPIPE"]]_vars
    /\ []((pc = "writing" /\ proc # "running") => ENABLED write_all_fails)
    /\ []((pc = "finalized" /\ early) => ret.tag = "FFMpegExitedAbnormally")

\* C9 amended: the send_frame part holds for every call that has bytes to
\* write, and the failing call writes nothing and is not retried; finalize
\* reports the status the child terminated with: FFMpegExitedAbnormally
\* when it is not success (always so for a child killed by a signal), Ok
\* when the child had exited early with code 0, and the IO error of the wait
\* when the wait failed.
C9_DeadChildFailsSendFinalizeTellsStatus ==
    /\ [][(SendReturns /\ proc # "running") =>
             /\ ret' = [tag |-> "IOError", os |-> "EPIPE"]
             /\ pc' = "idle"
             /\ okFrames' = okFrames
             /\ pipe' = pipe]_vars
    /\ []((pc = "writing" /\ proc # "running") => ENABLED write_all_fails)
    /\ []((pc = "finalized" /\ early) =>
            IF proc = "gone" THEN ret = [tag |-> "IOError", os |-> "ECHILD"]
            ELSE IF exit[1] = [kind |-> "exit", val |-> 0] THEN ret = Ok
            ELSE ret = [tag |-> "FFMpegExitedAbnormally", status |-> exit[1]])

C9_Witness ==
    /\ pc = "finalized"
    /\ early
    /\ failed
    /\ exit[1].kind = "signal"
    /\ ret.tag = "FFMpegExitedAbnormally"

\* C10 as stated: for a child killed by a signal finalize returns
\* FFMpegExitedAbnormally, never success, with the raw status, whose code()
\* is None, and a message without a number.
C10_SignalIsAbnormalWithoutCode ==
    (pc = "finalized" /\ exit[1].kind = "signal") =>
        /\ ret = [tag |-> "FFMpegExitedAbnormally", status |-> exit[1]]
        /\ code(ret.status) = None
        /\ Display(ret) = <<"ffmpeg exited abnormally">>

\* C10 amended: that holds whenever the wait itself succeeds; when it fails
\* finalize returns the IO error of the wait (still never success, and still
\* no guessed code).
C10_SignalIsAbnormalUnlessWaitFails ==
    (pc = "finalized" /\ exit[1].kind = "signal") =>
        /\ ret # Ok
        /\ IF proc = "gone"
           THEN /\ ret = [tag |-> "IOError", os |-> "ECHILD"]
                /\ Display(ret) = <<"io error: ", "ECHILD">>
           ELSE /\ ret = [tag |-> "FFMpegExitedAbnormally", status |-> exit[1]]
                /\ code(ret.status) = None
                /\ Display(ret) = <<"ffmpeg exited abnormally">>

C10_Witness ==
    /\ pc = "finalized"
    /\ exit[1].kind = "signal"
    /\ ret.tag = "FFMpegExitedAbnormally"
    /\ Display(ret) = <<"ffmpeg exited abnormally">>

\* C11: between calls the session holds no bytes of its own, and when
\* send_frame has returned Ok for a frame, the pipe has accepted all the
\* 4 * width * height bytes of it: what the pipe has accepted is the bytes
\* of the Ok frames, each of them 4 * width * height long.
C11_SynchronousAndComplete ==
    (pc = "idle" /\ ~failed) =>
        /\ buf = << >>
        /\ nWritten = Len(FramesBytes(okFrames))
        /\ \A i \in 1..Len(okFrames) :
               Len(pixels_u8(host, okFrames[i])) = 4 * sess[1].width * sess[1].height

\* C18: between calls, as long as no send_frame has returned an error, the
\* pipe has accepted 4 * width * height bytes for every send_frame that
\* returned Ok and nothing else; a rejected frame and the teardown that
\* follows it add nothing.
C18_WholeFrames ==
    (pc \in {"idle", "panicked", "dropWait", "dropped", "finWait", "finalized"}
       /\ ~failed) =>
        nWritten = 4 * call[1].width * call[1].height * Len(okFrames)

\* C19: when width * height does not fit in usize, no frame is accepted on
\* the strength of the product modulo 2^WordBits.
C19_NoFrameOnWrappedProduct ==
    (sess # None /\ sess[1].width * sess[1].height >= UsizeMod) =>
        /\ okFrames = << >>
        /\ pc # "writing"

\* C13: as long as the session exists its accessors return what start was
\* called with, and no step of a send_frame call (one that returns Ok, one
\* that returns an error, one that panics) changes a field of the session:
\* not its width, height or fps, nor its child handle.
C13_ConfigurationImmutable ==
    /\ [](sess # None =>
            /\ width(sess[1]) = call[1].width
            /\ height(sess[1]) = call[1].height
            /\ fps(sess[1]) = call[1].fps
            /\ resolution(sess[1]) = <<call[1].width, call[1].height>>)
    /\ [][(pc \in {"idle", "writing"} /\ pc' \in {"idle", "writing", "panicked"}) =>
             UNCHANGED <<sess, stdin, cached, cmd>>]_vars

C13_Witness ==
    /\ pc = "idle"
    /\ failed
    /\ Len(okFrames) = 1
    /\ width(sess[1]) # height(sess[1])

\* the decimal numerals of the numbers start is called with, written out
Numeral(n) ==
    CASE n = 30 -> "30" [] n = 60 -> "60"
      [] n = 1 -> "1" [] n = 2 -> "2" [] n = 3 -> "3" [] n = 4 -> "4"

\* C14: the child runs exactly when a command was spawned, and the command
\* is ffmpeg with the arguments -loglevel verbose -y -f rawvideo -pix_fmt
\* rgba -s {width}x{height} -r {fps} -i - and the output path last; only
\* its standard input is piped.
C14_CommandLine ==
    /\ cmd = None <=> proc = "none"
    /\ cmd # None =>
         LET c == call[1]
         IN /\ cmd[1].program = "ffmpeg"
            /\ cmd[1].args =
                 <<"-loglevel", "verbose", "-y", "-f", "rawvideo", "-pix_fmt", "rgba",
                   "-s", Numeral(c.width) \o "x" \o Numeral(c.height),
                   "-r", Numeral(c.fps), "-i", "-", c.out_file>>
            /\ cmd[1].stdin = "piped"
            /\ cmd[1].stdout = "inherit"
            /\ cmd[1].stderr = "inherit"

C14_Witness ==
    /\ proc = "running"
    /\ cmd # None
    /\ call[1].width # call[1].height
    /\ call[1].fps = 60

\* the state of the child and of the pipe that a wait leaves behind
ChildSide == <<stdin, pipe, childRead, childEOF, proc, exit, cached>>

\* C12: drop has the effects of finalize on the child, in the same order:
\* both first release the write end of the pipe and change nothing else,
\* both then return exactly when the child has terminated, leaving the
\* process and the handle as one Child::wait leaves them; after either the
\* pipe is empty and closed and the child is no longer a process of its
\* own.  drop leaves the caller's result alone.
C12_DropIsFinalizeWithoutResult ==
    /\ [][(pc \in {"idle", "panicked"} /\ pc' \in {"finWait", "dropWait"}) =>
             /\ stdin' = FALSE
             /\ UNCHANGED <<pipe, childRead, childEOF, proc, exit, cached, ret>>]_vars
    /\ [][(pc \in {"finWait", "dropWait"} /\ pc' \in {"finalized", "dropped"}) =>
             /\ proc # "running"
             /\ proc' = Wait(cached, proc, exit).proc
             /\ cached' = Wait(cached, proc, exit).cached
             /\ UNCHANGED <<stdin, pipe, childRead, childEOF, exit>>
             /\ pc = "dropWait" => ret' = ret]_vars
    /\ [](pc \in {"finWait", "dropWait"} =>
            /\ ENABLED finalize_returns <=> (pc = "finWait" /\ proc # "running")
            /\ ENABLED drop_returns <=> (pc = "dropWait" /\ proc # "running"))
    /\ [](pc \in {"finalized", "dropped"} =>
            /\ ~stdin
            /\ pipe = << >>
            /\ proc \in {"reaped", "gone"}
            /\ proc = "reaped" <=> cached # None
            /\ cached # None => cached = exit)

C12_Witness ==
    /\ pc = "dropped"
    /\ proc = "reaped"
    /\ childEOF
    /\ Len(okFrames) >= 1
    /\ ret = Ok

\* the write of send_frame cannot go on: the pipe is full and the child is
\* alive
Blocked == pc = "writing" /\ Len(pipe) = PipeCap /\ proc = "running"

\* C16: with a child that keeps reading its input or terminates, a
\* send_frame that is writing returns; and while the pipe is full and the
\* child alive and not reading, the call can take no step: it does not
\* return, it reports no error and it loses no byte of the frame.
C16_BackpressureOnly ==
    /\ (pc = "writing") ~> (pc = "idle")
    /\ [](Blocked => (~ENABLED write_all_writes /\ ~ENABLED write_all_fails))
    /\ [][Blocked => UNCHANGED <<pc, buf, cur, ret, okFrames, nWritten, failed>>]_vars

C16_Witness ==
    /\ Blocked
    /\ Len(buf) >= 1
    /\ Len(okFrames) = 1

\* how many of the waits logged so far collected the child
Reaps == Cardinality({i \in 1..Len(waitLog) : waitLog[i] = "reaped"})

\* C17 as stated: a session that has ended has reaped its child exactly
\* once; the wait of the implicit Drop after finalize does not block, makes
\* no system call that could reap or signal a process, and leaves the
\* result of finalize as it was.
C17_ReapedExactlyOnce ==
    /\ pc \in {"finalized", "dropped"} => Reaps = 1
    /\ pc = "finalized" =>
         /\ Len(waitLog) = 2
         /\ waitLog[2] = "cached"

\* C17 amended: the session has one child and reaps it at most once, and
\* exactly once unless the child was already reaped by something else, in
\* which case every wait of the session fails with ECHILD.  After finalize
\* the implicit Drop waits a second time on the same child: after a
\* successful first wait it is answered from the stored status without a
\* system call, after a failed one it asks the system again and fails
\* again; it never finds the child running (it does not block), it never
\* collects a process, and the result of finalize is that of the first
\* wait alone.
C17_ReapedAtMostOnce ==
    /\ Reaps <= 1
    /\ Reaps = 1 <=> proc = "reaped"
    /\ sess # None => cmd # None
    /\ pc \in {"finalized", "dropped"} => (Reaps = 0 <=> proc = "gone")
    /\ pc = "dropped" => Len(waitLog) = 1 /\ waitLog[1] \in {"reaped", "ECHILD"}
    /\ pc = "finalized" =>
         /\ Len(waitLog) = 2
         /\ waitLog \in {<<"reaped", "cached">>, <<"ECHILD", "ECHILD">>}
         /\ waitLog[1] = "ECHILD" <=> ret = IOError("ECHILD")
         /\ waitLog[1] = "reaped" =>
              ret = (IF success(exit[1]) THEN Ok ELSE FFMpegExitedAbnormally(exit[1]))

C17_Witness ==
    /\ pc = "finalized"
    /\ waitLog = <<"reaped", "cached">>
    /\ ret.tag = "FFMpegExitedAbnormally"

====
